---- MODULE Spec2Model ----
(***************************************************************************)
(* CRSF serial receiver (src/main/rx/crsf.c): the frame assembler run from *)
(* the receive interrupt (crsfDataReceive), the polled channel unpacker    *)
(* (crsfFrameStatus), the raw channel read (crsfReadRawRC) and the         *)
(* link-statistics handler, built with USE_CRSF_V3, USE_TELEMETRY_CRSF,    *)
(* USE_MSP_OVER_TELEMETRY, USE_CRSF_CMS_TELEMETRY and                       *)
(* USE_CRSF_LINK_STATISTICS defined.                                        *)
(*                                                                         *)
(* Bytes are naturals in 0..255.  A uint32_t that can exceed 2^31 (the     *)
(* microsecond clock, the arithmetic of crsfReadRawRC) is a pair           *)
(* <<high 16 bits, low 16 bits>> so that its wrap-around modulo 2^32 is    *)
(* exact.                                                                  *)
(***************************************************************************)
EXTENDS Integers, Sequences, FiniteSets, TLC

\* ------------------------------------------------------------------------
\* Program constants
\* ------------------------------------------------------------------------

CRSF_TIME_NEEDED_PER_FRAME_US == 1100
CRSF_FRAME_ERROR_COUNT_THRESHOLD == 100
CRSF_SUBSET_RC_CHANNELS_PACKED_RESOLUTION == 11
CRSF_SUBSET_RC_CHANNELS_PACKED_MASK == 2047
CRSF_SUBSET_RC_CHANNELS_PACKED_STARTING_CHANNEL_RESOLUTION == 5
CRSF_SUBSET_RC_CHANNELS_PACKED_STARTING_CHANNEL_MASK == 31

\* declared in rx/crsf.h and rx/crsf_protocol.h
CRSF_FRAME_SIZE_MAX == 64
CRSF_MAX_CHANNEL == 16
CRSF_FRAME_LENGTH_ADDRESS == 1
CRSF_FRAME_LENGTH_FRAMELENGTH == 1
CRSF_FRAME_LENGTH_TYPE_CRC == 2
CRSF_FRAME_ORIGIN_DEST_SIZE == 2
CRSF_FRAME_LINK_STATISTICS_PAYLOAD_SIZE == 10
CRSF_ADDRESS_FLIGHT_CONTROLLER == 200
CRSF_FRAMETYPE_LINK_STATISTICS == 20
CRSF_FRAMETYPE_RC_CHANNELS_PACKED == 22
CRSF_FRAMETYPE_SUBSET_RC_CHANNELS_PACKED == 23
CRSF_FRAMETYPE_LINK_STATISTICS_RX == 28
CRSF_FRAMETYPE_LINK_STATISTICS_TX == 29
CRSF_FRAMETYPE_DEVICE_PING == 40
CRSF_FRAMETYPE_COMMAND == 50
CRSF_FRAMETYPE_MSP_REQ == 122
CRSF_FRAMETYPE_MSP_WRITE == 124
CRSF_FRAMETYPE_DISPLAYPORT_CMD == 125
\* rx/rx.h
RX_FRAME_PENDING == 0
RX_FRAME_COMPLETE == 1

\* ------------------------------------------------------------------------
\* Machine arithmetic
\* ------------------------------------------------------------------------

Pow2(n) == 2 ^ n

RECURSIVE BitXor(_, _)
BitXor(a, b) ==
    IF a = 0 THEN b
    ELSE IF b = 0 THEN a
    ELSE (((a % 2) + (b % 2)) % 2) + (2 * BitXor(a \div 2, b \div 2))

RECURSIVE BitAnd(_, _)
BitAnd(a, b) ==
    IF a = 0 \/ b = 0 THEN 0
    ELSE ((a % 2) * (b % 2)) + (2 * BitAnd(a \div 2, b \div 2))

RECURSIVE BitOr(_, _)
BitOr(a, b) ==
    IF a = 0 THEN b
    ELSE IF b = 0 THEN a
    ELSE (IF (a % 2) = 1 \/ (b % 2) = 1 THEN 1 ELSE 0) + (2 * BitOr(a \div 2, b \div 2))

\* uint32_t as <<high half, low half>>
U32(n) == <<(n \div 65536) % 65536, n % 65536>>

U32AddU(a, b) ==
    LET lo == a[2] + b[2]
    IN  <<(a[1] + b[1] + (lo \div 65536)) % 65536, lo % 65536>>

U32SubU(a, b) ==
    LET borrow == IF a[2] < b[2] THEN 1 ELSE 0
    IN  <<((a[1] - b[1] - borrow) + 131072) % 65536, ((a[2] - b[2]) + 65536) % 65536>>

\* a * k and a / k for a small constant k (k < 2^15)
U32MulK(a, k) ==
    LET lo == a[2] * k
    IN  <<((a[1] * k) + (lo \div 65536)) % 65536, lo % 65536>>

U32DivK(a, k) ==
    <<a[1] \div k, (((a[1] % k) * 65536) + a[2]) \div k>>

U32Gt(a, b) == a[1] > b[1] \/ (a[1] = b[1] /\ a[2] > b[2])

\* conversion of a uint32_t to uint16_t and uint8_t
ToU16(a) == a[2]
ToU8(n) == ((n % 256) + 256) % 256

\* ------------------------------------------------------------------------
\* common/crc.c: CRC-8 with a given polynomial, one byte at a time
\* ------------------------------------------------------------------------

RECURSIVE crc8_shift(_, _, _)
crc8_shift(crc, poly, ii) ==
    IF ii = 0 THEN crc
    ELSE crc8_shift(IF crc >= 128 THEN BitXor((crc * 2) % 256, poly)
                    ELSE (crc * 2) % 256, poly, ii - 1)

Crc8TableD5 == [b \in 0..255 |-> crc8_shift(b, 213, 8)]
Crc8TableBA == [b \in 0..255 |-> crc8_shift(b, 186, 8)]

crc8_dvb_s2(crc, a) == Crc8TableD5[BitXor(crc, a)]
crc8_poly_0xba(crc, a) == Crc8TableBA[BitXor(crc, a)]

\* C integer division, truncating toward zero
CDiv(a, b) == IF a >= 0 THEN a \div b ELSE -((-a) \div b)

Min(a, b) == IF a < b THEN a ELSE b

\* ------------------------------------------------------------------------
\* State
\* ------------------------------------------------------------------------

VARIABLES
    crsfFrameDone,              \* bool: the "frame ready" latch
    crsfFrame,                  \* crsfFrame_t: bytes[64] of the frame in flight
    crsfChannelDataFrame,       \* crsfFrame_t: the decode snapshot
    crsfChannelData,            \* uint32_t[16]
    crsfFrameStartAtUs,         \* uint32_t
    crsfFramePosition,          \* uint8_t, static in crsfDataReceive
    crsfFrameErrorCnt,          \* uint32_t, static in crsfDataReceive
    lastLinkStatisticsFrameUs,  \* timeUs_t
    microsNow,                  \* the value micros() returns, uint32_t
    rssiSource,                 \* TRUE when rssiSource == RSSI_SOURCE_RX_PROTOCOL_CRSF
    linkStats,                  \* the values last handed to the RSSI / link-quality subsystem
    rx,                         \* what the last call of crsfDataReceive did
    poll,                       \* crsfFrameStatus: its position, locals and last return value
    rawRC,                      \* crsfReadRawRC: the channel last read and the value returned
    wire,                       \* the rest of the frame being sent to the receiver
    sent,                       \* ghost: frames put on the wire, age of the frame start, ...
    hist,                       \* ghost: frames accepted, one since the last poll, channels before it,
                                \* frames overwritten unpolled, COMPLETE returns since the last frame
    telemetryBuf,               \* uint8_t[CRSF_FRAME_SIZE_MAX]
    telemetryBufLen,            \* uint8_t
    telem                       \* ghost: the last telemetry call, the unsent write, the bytes sent

vars == <<crsfFrameDone, crsfFrame, crsfChannelDataFrame, crsfChannelData,
          crsfFrameStartAtUs, crsfFramePosition, crsfFrameErrorCnt,
          lastLinkStatisticsFrameUs, microsNow, rssiSource, linkStats, rx, poll,
          rawRC, wire, sent, hist, telemetryBuf, telemetryBufLen, telem>>

telemVars == <<telemetryBuf, telemetryBufLen, telem>>

FrameIndex == 0..(CRSF_FRAME_SIZE_MAX - 1)
ChannelIndex == 0..(CRSF_MAX_CHANNEL - 1)
ZeroFrame == [i \in FrameIndex |-> 0]

\* crsfFrameDef_t: deviceAddress, frameLength, type, payload[]
deviceAddress(f) == f[0]
frameLength(f) == f[1]
frameType(f) == f[2]
crsfFramePayloadOffset == 3
payloadByte(f, ii) == f[crsfFramePayloadOffset + ii]

\* ------------------------------------------------------------------------
\* Checksums over the frame buffer
\* ------------------------------------------------------------------------

\* for (ii = first; ii < end; ++ii) crc = crc8(crc, payload[ii]), the loop split in
\* two halves to keep the evaluation shallow
RECURSIVE crcOverPayload(_, _, _, _, _)
crcOverPayload(f, crc, first, end, dvb) ==
    IF first >= end THEN crc
    ELSE IF first + 1 = end
    THEN IF dvb THEN crc8_dvb_s2(crc, payloadByte(f, first))
         ELSE crc8_poly_0xba(crc, payloadByte(f, first))
    ELSE LET mid == (first + end) \div 2
             half == crcOverPayload(f, crc, first, mid, dvb)
         IN  IF half >= 0 THEN crcOverPayload(f, half, mid, end, dvb) ELSE 0

\* CRC includes type and payload
crsfFrameCRC(f) ==
    crcOverPayload(f, crc8_dvb_s2(0, frameType(f)), 0,
                   frameLength(f) - CRSF_FRAME_LENGTH_TYPE_CRC, TRUE)

crsfFrameCmdCRC(f) ==
    crcOverPayload(f, crc8_poly_0xba(0, frameType(f)), 0,
                   frameLength(f) - CRSF_FRAME_LENGTH_TYPE_CRC - 1, FALSE)

\* ------------------------------------------------------------------------
\* Link statistics
\* ------------------------------------------------------------------------

Int8(b) == IF b >= 128 THEN b - 256 ELSE b

\* the uint8_t handed to CRSFsetRSSI
crsfRssiOf(uplink_RSSI_1, uplink_RSSI_2) ==
    IF uplink_RSSI_1 = 0 THEN uplink_RSSI_2
    ELSE IF uplink_RSSI_2 = 0 THEN uplink_RSSI_1
    ELSE ToU8(Min(uplink_RSSI_1, uplink_RSSI_2) * (-1))

\* stats is the crsfLinkStatistics_t at the start of the payload
handleCrsfLinkStatisticsFrame(f) ==
    [lq      |-> payloadByte(f, 2),
     rfMode  |-> payloadByte(f, 5),
     snr     |-> Int8(payloadByte(f, 9)),
     txPower |-> payloadByte(f, 6),
     rssi    |-> crsfRssiOf(payloadByte(f, 0), payloadByte(f, 1))]

NoLinkStats == [lq |-> 0, rfMode |-> 0, snr |-> 0, txPower |-> 0, rssi |-> 0]

\* ------------------------------------------------------------------------
\* crsfDataReceive: the receive interrupt, one call per byte
\* ------------------------------------------------------------------------

\* currentTimeUs > crsfFrameStartAtUs + CRSF_TIME_NEEDED_PER_FRAME_US, in uint32_t
frameTimedOut(currentTimeUs, startAtUs) ==
    U32Gt(currentTimeUs, U32AddU(startAtUs, U32(CRSF_TIME_NEEDED_PER_FRAME_US)))

\* assume frame is 5 bytes long until we have received the frame length
fullFrameLengthAt(position, f) ==
    IF position < 3 THEN 5
    ELSE frameLength(f) + CRSF_FRAME_LENGTH_ADDRESS + CRSF_FRAME_LENGTH_FRAMELENGTH

\* crsfFrame.bytes[position] = c; a position past the array changes no byte of it
storeByte(f, position, c) ==
    IF position \in FrameIndex THEN [f EXCEPT ![position] = ToU8(c)] ELSE f

\* if (crsfFrameErrorCnt < CRSF_FRAME_ERROR_COUNT_THRESHOLD) crsfFrameErrorCnt++
errorCntInc(cnt) ==
    IF cnt < CRSF_FRAME_ERROR_COUNT_THRESHOLD THEN cnt + 1 ELSE cnt

\* a threshold test that passes only above the threshold
errorCntAboveThreshold(cnt) == cnt > CRSF_FRAME_ERROR_COUNT_THRESHOLD

\* if (crsfFrameErrorCnt >= CRSF_FRAME_ERROR_COUNT_THRESHOLD): fall back to default speed
errorCntAtThreshold(cnt) == cnt >= CRSF_FRAME_ERROR_COUNT_THRESHOLD

\* a CRC comparison that accepts every frame
crcAlwaysMatches(f, fullFrameLength) == {TRUE}

\* crc == crsfFrame.bytes[fullFrameLength - 1]; a frame longer than the buffer is
\* read past its end, and the comparison can go either way
crcVerdicts(f, fullFrameLength) ==
    IF fullFrameLength <= CRSF_FRAME_SIZE_MAX
    THEN {crsfFrameCRC(f) = f[fullFrameLength - 1]}
    ELSE BOOLEAN

\* a command CRC comparison that accepts every frame
cmdCrcAlwaysMatches(f, fullFrameLength) == {TRUE}

\* crsfFrame.bytes[fullFrameLength - 2] == crsfFrameCmdCRC(), read past the end of
\* the buffer for a frame longer than it
cmdCrcVerdicts(f, fullFrameLength) ==
    IF fullFrameLength <= CRSF_FRAME_SIZE_MAX
    THEN {f[fullFrameLength - 2] = crsfFrameCmdCRC(f)}
    ELSE BOOLEAN

\* an address test that every frame passes
addressedToAnyDevice(f) == TRUE

\* crsfFrame.frame.deviceAddress == CRSF_ADDRESS_FLIGHT_CONTROLLER
addressedToFlightController(f) == deviceAddress(f) = CRSF_ADDRESS_FLIGHT_CONTROLLER

\* a snapshot that keeps an unpolled frame instead of taking the new one
snapshotKeptWhileLatched(done, snap, f) == IF done THEN snap ELSE f

\* memcpy(&crsfChannelDataFrame, &crsfFrame, sizeof(crsfFrame))
snapshotCopied(done, snap, f) == f

\* the switch on crsfFrame.frame.type of a frame whose CRC matched: the latch, the
\* snapshot, the link statistics, the statistics timestamp and the handler invoked
dispatchFrame(f, fullFrameLength, currentTimeUs, mspBuffered, cmdOk) ==
    LET same == [done |-> crsfFrameDone, snap |-> crsfChannelDataFrame,
                 stats |-> linkStats, lastTx |-> lastLinkStatisticsFrameUs,
                 handler |-> "none"]
        type == frameType(f)
    IN  IF type \in {CRSF_FRAMETYPE_RC_CHANNELS_PACKED,
                     CRSF_FRAMETYPE_SUBSET_RC_CHANNELS_PACKED}
        THEN IF addressedToFlightController(f)
             THEN [same EXCEPT !.done = TRUE,
                               !.snap = snapshotCopied(crsfFrameDone,
                                                       crsfChannelDataFrame, f),
                               !.handler = "rc"]
             ELSE same
        ELSE IF type \in {CRSF_FRAMETYPE_MSP_REQ, CRSF_FRAMETYPE_MSP_WRITE}
        THEN [same EXCEPT !.handler = IF mspBuffered THEN "crsfScheduleMspResponse"
                                      ELSE "bufferCrsfMspFrame"]
        ELSE IF type = CRSF_FRAMETYPE_DEVICE_PING
        THEN [same EXCEPT !.handler = "crsfScheduleDeviceInfoResponse"]
        ELSE IF type = CRSF_FRAMETYPE_DISPLAYPORT_CMD
        THEN [same EXCEPT !.handler = "crsfProcessDisplayPortCmd"]
        ELSE IF type = CRSF_FRAMETYPE_LINK_STATISTICS
        THEN IF rssiSource
                /\ frameLength(f) = CRSF_FRAME_ORIGIN_DEST_SIZE
                                    + CRSF_FRAME_LINK_STATISTICS_PAYLOAD_SIZE
             THEN [same EXCEPT !.stats = handleCrsfLinkStatisticsFrame(f),
                               !.handler = "handleCrsfLinkStatisticsFrame"]
             ELSE same
        ELSE IF type = CRSF_FRAMETYPE_LINK_STATISTICS_TX
        THEN IF rssiSource
                /\ addressedToFlightController(f)
                /\ frameLength(f) = CRSF_FRAME_ORIGIN_DEST_SIZE
                                    + CRSF_FRAME_LINK_STATISTICS_PAYLOAD_SIZE
             THEN [same EXCEPT !.lastTx = currentTimeUs,
                               !.handler = "handleCrsfLinkStatisticsTxFrame"]
             ELSE same
        ELSE IF type = CRSF_FRAMETYPE_COMMAND
        THEN IF cmdOk /\ f[3] = CRSF_ADDRESS_FLIGHT_CONTROLLER
             THEN [same EXCEPT !.handler = "crsfProcessCommand"]
             ELSE same
        ELSE same

NoIndex == -1

\* One call crsfDataReceive(c, NULL) with micros() = currentTimeUs: the set of
\* results it can have, each the new value of everything the call can write.
crsfDataReceiveResults(c, currentTimeUs) ==
    LET timedOut == frameTimedOut(currentTimeUs, crsfFrameStartAtUs)
        position == IF timedOut THEN 0 ELSE crsfFramePosition
        startAtUs == IF position = 0 THEN currentTimeUs ELSE crsfFrameStartAtUs
        fullFrameLength == fullFrameLengthAt(position, crsfFrame)
        f == storeByte(crsfFrame, position, c)
        next == (position + 1) % 256
        base == [frame |-> crsfFrame, position |-> position, startAtUs |-> startAtUs,
                 errorCnt |-> crsfFrameErrorCnt, done |-> crsfFrameDone,
                 snap |-> crsfChannelDataFrame, stats |-> linkStats,
                 lastTx |-> lastLinkStatisticsFrameUs,
                 rx |-> [stored |-> NoIndex, timedOut |-> timedOut, complete |-> FALSE,
                         crcOk |-> FALSE, handler |-> "none", speedReq |-> 0,
                         cntAtCheck |-> crsfFrameErrorCnt, c |-> ToU8(c),
                         cntBefore |-> crsfFrameErrorCnt]]
        \* if (crsfFrameErrorCnt >= CRSF_FRAME_ERROR_COUNT_THRESHOLD) at the end of
        \* the enclosing block
        checked(r) ==
            IF errorCntAtThreshold(r.errorCnt)
            THEN [r EXCEPT !.errorCnt = 0, !.rx.speedReq = 1,
                           !.rx.cntAtCheck = r.errorCnt]
            ELSE [r EXCEPT !.rx.cntAtCheck = r.errorCnt]
        stored == [base EXCEPT !.frame = f, !.rx.stored = position]
    IN  IF position < fullFrameLength
        THEN IF next >= fullFrameLength
             THEN { checked(
                      IF crcOk
                      THEN LET d == dispatchFrame(f, fullFrameLength, currentTimeUs,
                                                  mspBuffered, cmdOk)
                           IN  [stored EXCEPT !.position = 0, !.errorCnt = 0,
                                              !.done = d.done, !.snap = d.snap,
                                              !.stats = d.stats, !.lastTx = d.lastTx,
                                              !.rx.complete = TRUE, !.rx.crcOk = TRUE,
                                              !.rx.handler = d.handler]
                      ELSE [stored EXCEPT !.position = 0,
                                          !.errorCnt = errorCntInc(crsfFrameErrorCnt),
                                          !.rx.complete = TRUE])
                    : crcOk \in crcVerdicts(f, fullFrameLength),
                      mspBuffered \in IF frameType(f) \in {CRSF_FRAMETYPE_MSP_REQ,
                                                           CRSF_FRAMETYPE_MSP_WRITE}
                                      THEN BOOLEAN ELSE {FALSE},
                      cmdOk \in IF frameType(f) = CRSF_FRAMETYPE_COMMAND
                                THEN cmdCrcVerdicts(f, fullFrameLength) ELSE {FALSE} }
             ELSE { checked([stored EXCEPT !.position = next,
                                           !.errorCnt = errorCntInc(crsfFrameErrorCnt)]) }
        ELSE { base }

\* ------------------------------------------------------------------------
\* crsfFrameStatus: the poll, statement by statement
\* ------------------------------------------------------------------------

\* a layout with every channel in a 16-bit field of its own
rcChannelsUnpackedChan(f, i) ==
    (payloadByte(f, 2 * i) + (256 * payloadByte(f, (2 * i) + 1))) % 2048

\* crsfPayloadRcChannelsPacked_t: chan<i> is the 11-bit field at bit 11*i of the
\* packed little-endian payload
rcChannelsPackedChan(f, i) ==
    LET bit == 11 * i
        byte == bit \div 8
        shift == bit % 8
        b0 == payloadByte(f, byte)
        b1 == payloadByte(f, byte + 1)
        b2 == IF shift + 11 > 16 THEN payloadByte(f, byte + 2) ELSE 0
    IN  ((b0 + (256 * b1) + (65536 * b2)) \div Pow2(shift)) % 2048

\* payload[readByteIndex] of the snapshot; a read past the snapshot only ever
\* reaches values written past crsfChannelData, and is taken as 0
snapshotPayload(f, readByteIndex) ==
    IF crsfFramePayloadOffset + readByteIndex \in FrameIndex
    THEN payloadByte(f, readByteIndex) ELSE 0

\* a channel count that rounds the payload bits up to whole channels
subsetNumOfChannelsRoundedUp(f) ==
    ToU8(CDiv(((frameLength(f) - CRSF_FRAME_LENGTH_TYPE_CRC) * 8)
              - CRSF_SUBSET_RC_CHANNELS_PACKED_STARTING_CHANNEL_RESOLUTION
              + (CRSF_SUBSET_RC_CHANNELS_PACKED_RESOLUTION - 1),
              CRSF_SUBSET_RC_CHANNELS_PACKED_RESOLUTION))

\* uint8_t numOfChannels of the subset format
subsetNumOfChannels(f) ==
    ToU8(CDiv(((frameLength(f) - CRSF_FRAME_LENGTH_TYPE_CRC) * 8)
              - CRSF_SUBSET_RC_CHANNELS_PACKED_STARTING_CHANNEL_RESOLUTION,
              CRSF_SUBSET_RC_CHANNELS_PACKED_RESOLUTION))

\* while (bitsMerged < CRSF_SUBSET_RC_CHANNELS_PACKED_RESOLUTION) { ... }
RECURSIVE subsetMerge(_, _)
subsetMerge(l, f) ==
    IF l.bitsMerged >= CRSF_SUBSET_RC_CHANNELS_PACKED_RESOLUTION THEN l
    ELSE LET readByte == snapshotPayload(f, l.readByteIndex)
             l1 == [l EXCEPT !.readByteIndex = (l.readByteIndex + 1) % 256]
         IN  IF l.startChannel = 255
             THEN subsetMerge(
                    [l1 EXCEPT
                       !.startChannel =
                           BitAnd(readByte,
                                  CRSF_SUBSET_RC_CHANNELS_PACKED_STARTING_CHANNEL_MASK),
                       !.readValue =
                           BitOr(l.readValue,
                                 (readByte \div Pow2(CRSF_SUBSET_RC_CHANNELS_PACKED_STARTING_CHANNEL_RESOLUTION))
                                 * Pow2(l.bitsMerged)),
                       !.bitsMerged = l.bitsMerged + 8
                           - CRSF_SUBSET_RC_CHANNELS_PACKED_STARTING_CHANNEL_RESOLUTION],
                    f)
             ELSE subsetMerge(
                    [l1 EXCEPT
                       !.readValue = BitOr(l.readValue, readByte * Pow2(l.bitsMerged)),
                       !.bitsMerged = l.bitsMerged + 8],
                    f)

\* crsfChannelData[index] = value; an index past the array changes no entry of it
storeChannel(data, index, value) ==
    IF index \in ChannelIndex THEN [data EXCEPT ![index] = value] ELSE data

\* a poll that leaves the latch as it found it
latchKept(done) == done

\* crsfFrameDone = false
latchCleared(done) == FALSE

PollIdle ==
    [pc |-> "idle", n |-> 0, readByteIndex |-> 0, bitsMerged |-> 0, readValue |-> 0,
     startChannel |-> 255, numOfChannels |-> 0, ret |-> RX_FRAME_PENDING,
     src |-> [i \in ChannelIndex |-> 0], outside |-> NoIndex]

\* a poll that clears the latch once more when it returns
latchClearedAtReturn(done) == FALSE

\* return RX_FRAME_COMPLETE: the latch is as the interrupt left it
latchAtReturn(done) == done

\* One statement of crsfFrameStatus from position p.pc, reading the latch `done`,
\* the snapshot `snap` (the `seq`-th frame copied into it) and the channels `data`:
\* the new position and locals, latch and channels.
crsfFrameStatusStep(p, done, snap, seq, data) ==
    CASE p.pc = "idle" ->
           \* if (crsfFrameDone)
           IF done
           THEN [p |-> [PollIdle EXCEPT !.pc = "clear", !.ret = p.ret],
                 done |-> done, data |-> data]
           ELSE [p |-> [PollIdle EXCEPT !.ret = RX_FRAME_PENDING],
                 done |-> done, data |-> data]
      [] p.pc = "clear" ->
           \* crsfFrameDone = false
           [p |-> [p EXCEPT !.pc = "type"], done |-> latchCleared(done), data |-> data]
      [] p.pc = "type" ->
           \* if (crsfChannelDataFrame.frame.type == CRSF_FRAMETYPE_RC_CHANNELS_PACKED)
           IF frameType(snap) = CRSF_FRAMETYPE_RC_CHANNELS_PACKED
           THEN [p |-> [p EXCEPT !.pc = "fixed", !.n = 0], done |-> done, data |-> data]
           ELSE [p |-> [p EXCEPT !.pc = "subset",
                                 !.numOfChannels = subsetNumOfChannels(snap)],
                 done |-> done, data |-> data]
      [] p.pc = "fixed" ->
           \* crsfChannelData[n] = rcChannels->chan<n>
           [p |-> [p EXCEPT !.n = p.n + 1, !.src[p.n] = seq,
                            !.pc = IF p.n + 1 = CRSF_MAX_CHANNEL THEN "return"
                                   ELSE "fixed"],
            done |-> done,
            data |-> storeChannel(data, p.n, rcChannelsPackedChan(snap, p.n))]
      [] p.pc = "subset" ->
           \* for (n = 0; n < numOfChannels; n++) { ... }
           IF p.n < p.numOfChannels
           THEN LET l == subsetMerge(p, snap)
                    index == l.startChannel + p.n
                IN  [p |-> [l EXCEPT
                              !.n = (p.n + 1) % 256,
                              !.readValue =
                                  l.readValue
                                  \div Pow2(CRSF_SUBSET_RC_CHANNELS_PACKED_RESOLUTION),
                              !.bitsMerged = l.bitsMerged
                                  - CRSF_SUBSET_RC_CHANNELS_PACKED_RESOLUTION,
                              !.src = IF index \in ChannelIndex
                                      THEN [l.src EXCEPT ![index] = seq] ELSE l.src,
                              !.outside = IF index \in ChannelIndex THEN l.outside
                                          ELSE index],
                     done |-> done,
                     data |-> storeChannel(data, index,
                                 BitAnd(l.readValue,
                                        CRSF_SUBSET_RC_CHANNELS_PACKED_MASK))]
           ELSE [p |-> [p EXCEPT !.pc = "return"], done |-> done, data |-> data]
      [] p.pc = "return" ->
           \* return RX_FRAME_COMPLETE
           [p |-> [PollIdle EXCEPT !.ret = RX_FRAME_COMPLETE, !.src = p.src,
                                   !.outside = p.outside],
            done |-> latchAtReturn(done), data |-> data]

\* crsfFrameStatus run from its first statement to its return with no interrupt
RECURSIVE crsfFrameStatusRun(_, _, _)
crsfFrameStatusRun(s, snap, seq) ==
    LET t == crsfFrameStatusStep(s.p, s.done, snap, seq, s.data)
    IN  IF t.p.pc = "idle" THEN t ELSE crsfFrameStatusRun(t, snap, seq)

\* ------------------------------------------------------------------------
\* crsfReadRawRC
\* ------------------------------------------------------------------------

\* (crsfChannelData[chan] - 992) * 5 / 8 + 1500 in uint32_t, returned as uint16_t
crsfReadRawRC(data, chan) ==
    ToU16(U32AddU(U32DivK(U32MulK(U32SubU(U32(data[chan]), U32(992)), 5), 8),
                  U32(1500)))

\* ------------------------------------------------------------------------
\* crsfRxInit
\* ------------------------------------------------------------------------

\* rxConfig->midrc
MidrcValues == {1500}

\* crsfChannelData[ii] = (16 * rxConfig->midrc) / 10 - 1408
crsfRxInit(midrc) == [ii \in ChannelIndex |-> CDiv(16 * midrc, 10) - 1408]

\* ------------------------------------------------------------------------
\* crsfRxWriteTelemetryData, crsfRxSendTelemetryData
\* ------------------------------------------------------------------------

\* len = MIN(len, (int)sizeof(telemetryBuf))
telemetryLen(len) == Min(len, CRSF_FRAME_SIZE_MAX)

\* memcpy(telemetryBuf, data, len)
telemetryCopy(buf, data, len) ==
    [i \in FrameIndex |-> IF i < len THEN data[i + 1] ELSE buf[i]]

\* serialWriteBuf(serialPort, telemetryBuf, telemetryBufLen) when telemetryBufLen > 0
telemetrySent(buf, len) ==
    IF len > 0 THEN [k \in 1..len |-> buf[k - 1]] ELSE <<>>

\* a send that leaves the length as it found it
telemetryBufLenKept(len) == len

\* telemetryBufLen = 0 after the buffer was written out
telemetryBufLenAfterSend(len) == 0

NoTelemetry ==
    [op |-> "none", unsent |-> FALSE, data |-> <<>>, dropped |-> FALSE,
     had |-> FALSE, last |-> <<>>, out |-> <<>>]

\* ------------------------------------------------------------------------
\* The transmitter: frames as they are put on the wire
\* ------------------------------------------------------------------------

\* the CRC of bytes[first..last] continued from crc, the range split in two halves
RECURSIVE crcOfRange(_, _, _, _, _)
crcOfRange(crc, bytes, first, last, dvb) ==
    IF first > last THEN crc
    ELSE IF first = last
    THEN IF dvb THEN crc8_dvb_s2(crc, bytes[first]) ELSE crc8_poly_0xba(crc, bytes[first])
    ELSE LET mid == (first + last) \div 2
             half == crcOfRange(crc, bytes, first, mid, dvb)
         IN  IF half >= 0 THEN crcOfRange(half, bytes, mid + 1, last, dvb) ELSE 0

crcOfSeq(crc, bytes) == crcOfRange(crc, bytes, 1, Len(bytes), TRUE)
cmdCrcOfSeq(crc, bytes) == crcOfRange(crc, bytes, 1, Len(bytes), FALSE)

\* <Device address><Frame length><Type><Payload><CRC>
MkFrame(addr, type, payload) ==
    <<addr, Len(payload) + CRSF_FRAME_LENGTH_TYPE_CRC, type>> \o payload
        \o <<crcOfSeq(0, <<type>> \o payload)>>

\* the same frame with its last byte changed
Corrupt(frame) ==
    [frame EXCEPT ![Len(frame)] = (frame[Len(frame)] + 1) % 256]

\* bit j of the stream that starts with `lead` in its first `width` bits and goes on
\* with the 11-bit values, least significant bit first
StreamBit(lead, width, values, j) ==
    IF j < width THEN (lead \div Pow2(j)) % 2
    ELSE LET k == ((j - width) \div 11) + 1
         IN  IF k > Len(values) THEN 0
             ELSE (values[k] \div Pow2((j - width) % 11)) % 2

StreamByte(lead, width, values, k) ==
    StreamBit(lead, width, values, 8 * k)
    + (2 * StreamBit(lead, width, values, (8 * k) + 1))
    + (4 * StreamBit(lead, width, values, (8 * k) + 2))
    + (8 * StreamBit(lead, width, values, (8 * k) + 3))
    + (16 * StreamBit(lead, width, values, (8 * k) + 4))
    + (32 * StreamBit(lead, width, values, (8 * k) + 5))
    + (64 * StreamBit(lead, width, values, (8 * k) + 6))
    + (128 * StreamBit(lead, width, values, (8 * k) + 7))

\* the payload of an RC-channels frame: sixteen 11-bit values in 22 bytes
PackChannels(values) == [k \in 1..22 |-> StreamByte(0, 0, values, k - 1)]

\* the payload of a subset RC frame: the start channel in 5 bits, then the values
PackSubset(startChannel, values) ==
    [k \in 1..(((5 + (11 * Len(values))) + 7) \div 8)
        |-> StreamByte(startChannel, 5, values, k - 1)]

RcFrame(addr, values) ==
    MkFrame(addr, CRSF_FRAMETYPE_RC_CHANNELS_PACKED, PackChannels(values))

SubsetFrame(addr, startChannel, values) ==
    MkFrame(addr, CRSF_FRAMETYPE_SUBSET_RC_CHANNELS_PACKED,
            PackSubset(startChannel, values))

\* a link-statistics frame with the two uplink antenna readings
LinkStatisticsFrame(rssi1, rssi2) ==
    MkFrame(CRSF_ADDRESS_FLIGHT_CONTROLLER, CRSF_FRAMETYPE_LINK_STATISTICS,
            <<rssi1, rssi2, 97, 8, 1, 2, 3, 60, 95, 250>>)

\* a frame as the protocol defines it: 2 <= length <= 62, length + 2 bytes, the
\* last one the CRC of type and payload
WellFormed(frame) ==
    /\ Len(frame) >= 4
    /\ frame[2] = Len(frame) - 2
    /\ frame[2] >= 2
    /\ frame[2] <= CRSF_FRAME_SIZE_MAX - 2
    /\ frame[Len(frame)] = crcOfSeq(0, SubSeq(frame, 3, Len(frame) - 1))

\* ------------------------------------------------------------------------
\* Bounds and inputs
\* ------------------------------------------------------------------------

\* frames put on the wire in one behaviour
MaxFrames == 2

ValuesA == [i \in 1..16 |-> 172 + (100 * (i - 1))]
ValuesB == [i \in 1..16 |-> 2047 - (128 * (i - 1))]

RcA == RcFrame(CRSF_ADDRESS_FLIGHT_CONTROLLER, ValuesA)
RcB == RcFrame(CRSF_ADDRESS_FLIGHT_CONTROLLER, ValuesB)
SubsetA == SubsetFrame(CRSF_ADDRESS_FLIGHT_CONTROLLER, 4, <<100, 2000>>)
SubsetB == SubsetFrame(CRSF_ADDRESS_FLIGHT_CONTROLLER, 14, <<5, 2047>>)
\* the shortest frame: type and CRC only
MinFrame == MkFrame(CRSF_ADDRESS_FLIGHT_CONTROLLER, 1, <<>>)
\* a frame of 64 bytes whose CRC is wrong
BadCrc64 == Corrupt(MkFrame(CRSF_ADDRESS_FLIGHT_CONTROLLER, 2, [k \in 1..60 |-> k]))
\* a frame whose length byte announces 65 bytes in all
Oversize65 ==
    <<CRSF_ADDRESS_FLIGHT_CONTROLLER, 63, CRSF_FRAMETYPE_RC_CHANNELS_PACKED>>
        \o [k \in 1..62 |-> 2 * k]

Frames == {RcA, RcB, SubsetA, SubsetB, MinFrame, BadCrc64, Oversize65}

\* microseconds between two bytes of a frame, and before the first byte of a frame
ByteTimes == {5}
IdleTimes == {5, 6667}
\* the same with a pause inside the frame, as long as the frame window or longer
PauseTimes == {5, CRSF_TIME_NEEDED_PER_FRAME_US, CRSF_TIME_NEEDED_PER_FRAME_US + 1}

\* micros() when the first byte is about to arrive: just after start-up, and
\* 1101 us and 1106 us before the 32-bit counter wraps
ClockAtBoot == {U32(0)}
ClockNearWrap ==
    {U32(0), <<65535, 65536 - (CRSF_TIME_NEEDED_PER_FRAME_US + 1)>>,
     <<65535, 65536 - (CRSF_TIME_NEEDED_PER_FRAME_US + 6)>>}

RssiSources == {TRUE}

\* ages are counted up to "more than the frame window"
AgeCap == CRSF_TIME_NEEDED_PER_FRAME_US + 1
Aged(age, dt) == Min(age + dt, AgeCap)

NoRx == [stored |-> NoIndex, timedOut |-> FALSE, complete |-> FALSE, crcOk |-> FALSE,
         handler |-> "none", speedReq |-> 0, cntAtCheck |-> 0, c |-> 0,
         cntBefore |-> 0]

\* ------------------------------------------------------------------------
\* The state machine
\* ------------------------------------------------------------------------

InitAt(clocks) ==
    /\ crsfFrameDone = FALSE
    /\ crsfFrame = ZeroFrame
    /\ crsfChannelDataFrame = ZeroFrame
    /\ crsfChannelData \in {crsfRxInit(m) : m \in MidrcValues}
    /\ crsfFrameStartAtUs = U32(0)
    /\ crsfFramePosition = 0
    /\ crsfFrameErrorCnt = 0
    /\ lastLinkStatisticsFrameUs = U32(0)
    /\ microsNow \in clocks
    /\ rssiSource \in RssiSources
    /\ linkStats = NoLinkStats
    /\ rx = NoRx
    /\ poll = PollIdle
    /\ rawRC = [chan |-> NoIndex, stored |-> 0, value |-> 0]
    /\ wire = <<>>
    /\ sent = [frames |-> 0, wf |-> FALSE, span |-> 0, arrivalAge |-> 0,
               startAge |-> IF microsNow = U32(0) THEN 0 ELSE AgeCap]
    /\ hist = [snapSeq |-> 0, fresh |-> FALSE, before |-> crsfChannelData,
               lost |-> {}, returns |-> 0]
    /\ telemetryBuf = ZeroFrame
    /\ telemetryBufLen = 0
    /\ telem = NoTelemetry

\* The serial port hands the next byte on the wire to crsfDataReceive, dt
\* microseconds after the previous byte.
Receive(pool, idleTimes, byteTimes, maxFrames) ==
    /\ wire # <<>> \/ sent.frames < maxFrames
    /\ \E f \in (IF wire = <<>> THEN pool ELSE {wire}),
          dt \in (IF wire = <<>> THEN idleTimes ELSE byteTimes) :
         LET currentTimeUs == U32AddU(microsNow, U32(dt))
         IN  \E r \in crsfDataReceiveResults(Head(f), currentTimeUs) :
               /\ microsNow' = currentTimeUs
               /\ wire' = Tail(f)
               /\ crsfFrame' = r.frame
               /\ crsfFramePosition' = r.position
               /\ crsfFrameStartAtUs' = r.startAtUs
               /\ crsfFrameErrorCnt' = r.errorCnt
               /\ crsfFrameDone' = r.done
               /\ crsfChannelDataFrame' = r.snap
               /\ linkStats' = r.stats
               /\ lastLinkStatisticsFrameUs' = r.lastTx
               /\ rx' = r.rx
               /\ sent' = [frames |-> IF wire = <<>> THEN sent.frames + 1
                                      ELSE sent.frames,
                           wf |-> IF wire = <<>>
                                  THEN WellFormed(f) /\ crsfFramePosition = 0
                                  ELSE sent.wf,
                           span |-> IF wire = <<>> THEN 0 ELSE Aged(sent.span, dt),
                           arrivalAge |-> Aged(sent.startAge, dt),
                           startAge |-> IF r.rx.stored = 0 THEN 0
                                        ELSE Aged(sent.startAge, dt)]
               /\ hist' = IF r.rx.handler = "rc"
                          THEN [snapSeq |-> hist.snapSeq + 1, fresh |-> TRUE,
                                before |-> crsfChannelData,
                                lost |-> IF hist.fresh
                                         THEN hist.lost \cup {hist.snapSeq}
                                         ELSE hist.lost,
                                returns |-> 0]
                          ELSE [hist EXCEPT !.before = crsfChannelData]
               /\ UNCHANGED <<crsfChannelData, rssiSource, poll, rawRC, telemVars>>

\* ghost: the COMPLETE returns since the last accepted frame, counted up to 2
CountReturn(returns, ret) ==
    IF ret = RX_FRAME_COMPLETE THEN Min(returns + 1, 2) ELSE returns

\* crsfFrameStatus called and run to its return
FrameStatus ==
    /\ poll.pc = "idle"
    /\ LET r == crsfFrameStatusRun([p |-> poll, done |-> crsfFrameDone,
                                    data |-> crsfChannelData],
                                   crsfChannelDataFrame, hist.snapSeq)
       IN  /\ poll' = r.p
           /\ crsfFrameDone' = r.done
           /\ crsfChannelData' = r.data
           /\ hist' = [hist EXCEPT !.fresh = FALSE, !.before = crsfChannelData,
                                   !.returns = CountReturn(hist.returns, r.p.ret)]
    /\ UNCHANGED <<crsfFrame, crsfChannelDataFrame, crsfFrameStartAtUs,
                   crsfFramePosition, crsfFrameErrorCnt, lastLinkStatisticsFrameUs,
                   microsNow, rssiSource, linkStats, rx, rawRC, wire, sent, telemVars>>

\* one statement of crsfFrameStatus; the receive interrupt may run before the next
FrameStatusStep ==
    /\ LET r == crsfFrameStatusStep(poll, crsfFrameDone, crsfChannelDataFrame,
                                    hist.snapSeq, crsfChannelData)
       IN  /\ poll' = r.p
           /\ crsfFrameDone' = r.done
           /\ crsfChannelData' = r.data
    /\ hist' = IF poll.pc = "idle"
               THEN [hist EXCEPT !.fresh = FALSE, !.before = crsfChannelData]
               ELSE IF poll.pc = "return"
               THEN [hist EXCEPT !.returns = CountReturn(hist.returns,
                                                         RX_FRAME_COMPLETE)]
               ELSE hist
    /\ UNCHANGED <<crsfFrame, crsfChannelDataFrame, crsfFrameStartAtUs,
                   crsfFramePosition, crsfFrameErrorCnt, lastLinkStatisticsFrameUs,
                   microsNow, rssiSource, linkStats, rx, rawRC, wire, sent, telemVars>>

\* crsfReadRawRC(NULL, chan)
ReadChannels == {0, 15}

ReadRawRC ==
    /\ \E chan \in ReadChannels :
         rawRC' = [chan |-> chan, stored |-> crsfChannelData[chan],
                   value |-> crsfReadRawRC(crsfChannelData, chan)]
    /\ UNCHANGED <<crsfFrameDone, crsfFrame, crsfChannelDataFrame, crsfChannelData,
                   crsfFrameStartAtUs, crsfFramePosition, crsfFrameErrorCnt,
                   lastLinkStatisticsFrameUs, microsNow, rssiSource, linkStats, rx,
                   poll, wire, sent, hist, telemVars>>

\* The receiver fed back-to-back frames, polled between any two bytes.
DataReceive == Receive(Frames, IdleTimes, ByteTimes, MaxFrames)

Init == InitAt(ClockAtBoot)
Next == DataReceive \/ FrameStatus
Spec == Init /\ [][Next]_vars

\* ------------------------------------------------------------------------
\* Properties of the frame assembler
\* ------------------------------------------------------------------------

\* C1: no byte is ever stored at an index of the frame buffer that is 64 or greater,
\* whatever bytes are fed to crsfDataReceive: a frame whose length byte makes the
\* total size exceed 64 is rejected without a write outside the buffer.
C1_NoStoreOutsideFrameBuffer ==
    rx.stored < CRSF_FRAME_SIZE_MAX

\* C5: when the error counter reaches 100 during a call of crsfDataReceive, the
\* call requests the baud-rate fallback once and returns with the counter at 0;
\* the counter is in 0..99 between calls and never exceeds 100.
C5_ThresholdFallsBackOnceAndResets ==
    /\ crsfFrameErrorCnt \in 0..(CRSF_FRAME_ERROR_COUNT_THRESHOLD - 1)
    /\ rx.cntAtCheck <= CRSF_FRAME_ERROR_COUNT_THRESHOLD
    /\ rx.cntAtCheck = CRSF_FRAME_ERROR_COUNT_THRESHOLD
         => rx.speedReq = 1 /\ crsfFrameErrorCnt = 0
    /\ rx.speedReq = 1 => rx.cntAtCheck = CRSF_FRAME_ERROR_COUNT_THRESHOLD

\* C5 witness: a call in which the counter reached 100 and the fallback was requested
C5_Witness ==
    rx.speedReq = 1 /\ rx.cntAtCheck = CRSF_FRAME_ERROR_COUNT_THRESHOLD

\* C6: a poll with no RC-channel frame accepted since the previous poll returns
\* RX_FRAME_PENDING and leaves crsfChannelData, the snapshot and the latch as they
\* were; a poll returns RX_FRAME_COMPLETE only for a frame accepted since the
\* previous poll, so each accepted frame is reported by at most one poll.
C6_PollIdempotent ==
    [][ FrameStatus /\ ~hist.fresh
          => /\ poll'.ret = RX_FRAME_PENDING
             /\ UNCHANGED <<crsfChannelData, crsfChannelDataFrame, crsfFrameDone>> ]_vars

\* C6 witness: a frame was decoded by one poll and a later poll, with no frame in
\* between, returned RX_FRAME_PENDING
C6_Witness ==
    /\ poll.ret = RX_FRAME_PENDING
    /\ ~hist.fresh
    /\ hist.snapSeq > 0
    /\ \E i \in ChannelIndex : crsfChannelData[i] # crsfRxInit(1500)[i]

\* ------------------------------------------------------------------------
\* Channel decoding: RC frames of both formats, received and polled
\* ------------------------------------------------------------------------

\* channel vectors of the fixed format
ValuesLow == [i \in 1..16 |-> 0]
ValuesHigh == [i \in 1..16 |-> 2047]
ValuesAlt == [i \in 1..16 |-> IF i % 2 = 1 THEN 2047 ELSE 0]
FixedValues == {ValuesA, ValuesB, ValuesLow, ValuesHigh, ValuesAlt}

\* start channel and values of the subset format, startChannel + Len(values) <= 16
SubsetValues ==
    { <<4, <<100, 2000>> >>, <<14, <<5, 2047>> >>, <<0, <<2047>> >>,
      <<15, <<1>> >>, <<0, ValuesB>>, <<3, SubSeq(ValuesA, 1, 13)>> }

FixedTests ==
    { [values |-> v, frame |-> RcFrame(CRSF_ADDRESS_FLIGHT_CONTROLLER, v)] :
        v \in FixedValues }
SubsetTests ==
    { [startChannel |-> t[1], values |-> t[2],
       frame |-> SubsetFrame(CRSF_ADDRESS_FLIGHT_CONTROLLER, t[1], t[2])] :
        t \in SubsetValues }

DecodeFrames == { t.frame : t \in FixedTests \cup SubsetTests }

DecodeReceive == Receive(DecodeFrames, ByteTimes, ByteTimes, MaxFrames)
DecodePoll == FrameStatus

NextDecode == DecodeReceive \/ DecodePoll
SpecDecode == Init /\ [][NextDecode]_vars

\* the snapshot holds the frame, byte for byte
SnapshotIs(frame) ==
    \A k \in 1..Len(frame) : crsfChannelDataFrame[k - 1] = frame[k]

\* the last poll decoded the frame now in the snapshot
DecodedSnapshot ==
    poll.pc = "idle" /\ poll.ret = RX_FRAME_COMPLETE /\ ~hist.fresh

\* C7: the poll of a subset RC frame with start channel s and k values, s + k <= 16,
\* writes the k transmitted values to crsfChannelData[s..s+k-1] in order and leaves
\* every other channel as it was (s = 4 with {100, 2000}: channel 4 = 100,
\* channel 5 = 2000).
C7_SubsetDecode ==
    \A t \in SubsetTests :
        DecodedSnapshot /\ SnapshotIs(t.frame)
          => crsfChannelData =
               [i \in ChannelIndex |->
                  IF t.startChannel <= i /\ i < t.startChannel + Len(t.values)
                  THEN t.values[i - t.startChannel + 1]
                  ELSE hist.before[i]]

\* C7 witness: the subset frame s = 4, {100, 2000} decoded over channels that an
\* earlier fixed-format frame had set
C7_Witness ==
    /\ DecodedSnapshot
    /\ SnapshotIs(SubsetA)
    /\ crsfChannelData[4] = 100 /\ crsfChannelData[5] = 2000
    /\ crsfChannelData[3] = ValuesB[4] /\ crsfChannelData[6] = ValuesB[7]

\* C8: the poll of a fixed-format RC frame sets crsfChannelData[i] to the 11-bit
\* value the transmitter packed for channel i, for all i in 0..15.
C8_FixedDecode ==
    \A t \in FixedTests :
        DecodedSnapshot /\ SnapshotIs(t.frame)
          => \A i \in ChannelIndex : crsfChannelData[i] = t.values[i + 1]

\* C8 witness: a fixed-format frame with sixteen different values decoded
C8_Witness ==
    /\ DecodedSnapshot
    /\ SnapshotIs(RcA)
    /\ crsfChannelData[0] = 172 /\ crsfChannelData[15] = 1672

\* ------------------------------------------------------------------------
\* Timing: pauses on the wire, and the microsecond counter near its wrap
\* ------------------------------------------------------------------------

TimingFrames == {MinFrame, SubsetA}

TimedReceive == Receive(TimingFrames, PauseTimes, PauseTimes, MaxFrames)
TimedPoll == FrameStatus

InitTiming == InitAt(ClockNearWrap)
NextTiming == TimedReceive \/ TimedPoll
SpecTiming == InitTiming /\ [][NextTiming]_vars

\* the frame being sent is well formed, started at position 0, and its bytes so
\* far arrived within the frame window
InWindow ==
    sent.frames > 0 /\ sent.wf /\ sent.span <= CRSF_TIME_NEEDED_PER_FRAME_US

\* C2: a well-formed frame fed byte by byte from position 0, all bytes within the
\* 1100 us window, runs the dispatch switch exactly once, on its last byte and on
\* no earlier byte, and the position is 0 afterwards.
C2_CompletesOnceOnLastByte ==
    InWindow =>
        /\ (rx.complete /\ rx.crcOk) <=> (wire = <<>>)
        /\ wire = <<>> => crsfFramePosition = 0

\* C3: a byte that arrives 1100 us or more after crsfFrameStartAtUs is stored at
\* position 0 of the frame buffer and crsfFrameStartAtUs becomes its arrival time,
\* whatever the position was before.
C3_RestartsAtLateByte ==
    sent.frames > 0 /\ sent.arrivalAge >= CRSF_TIME_NEEDED_PER_FRAME_US
        => /\ rx.stored = 0
           /\ crsfFrame[0] = rx.c
           /\ crsfFrameStartAtUs = microsNow

\* ------------------------------------------------------------------------
\* The poll preempted by the receive interrupt
\* ------------------------------------------------------------------------

IsrFrames == {RcA, RcB}

IsrReceive == Receive(IsrFrames, ByteTimes, ByteTimes, MaxFrames)
PollStep == FrameStatusStep

NextIsr == IsrReceive \/ PollStep
SpecIsr == Init /\ [][NextIsr]_vars

\* C4: with the receive interrupt free to run between any two statements of the
\* poll, the channel values written by one poll that returns RX_FRAME_COMPLETE
\* are all decoded from the snapshot of a single RC-channel frame.
C4_PollDecodesOneFrame ==
    poll.pc = "return"
        => \A i, j \in ChannelIndex :
             poll.src[i] # 0 /\ poll.src[j] # 0 => poll.src[i] = poll.src[j]

\* ------------------------------------------------------------------------
\* Read-out: pulse widths and link statistics
\* ------------------------------------------------------------------------

\* channel values sent on all sixteen channels, and antenna readings sent
RawValues == {0, 172, 991, 992, 993, 1811, 2047}
RssiPairs == { <<0, 40>>, <<30, 0>>, <<20, 50>>, <<50, 20>>, <<0, 0>> }

ReadoutFrames ==
    { RcFrame(CRSF_ADDRESS_FLIGHT_CONTROLLER, [i \in 1..16 |-> v]) : v \in RawValues }
    \cup { LinkStatisticsFrame(r[1], r[2]) : r \in RssiPairs }

ReadoutReceive == Receive(ReadoutFrames, ByteTimes, ByteTimes, MaxFrames)
ReadoutPoll == FrameStatus

NextReadout == ReadoutReceive \/ ReadoutPoll \/ ReadRawRC
SpecReadout == Init /\ [][NextReadout]_vars

\* C9: for every stored channel value v in 0..2047, crsfReadRawRC returns
\* (v - 992) * 5 / 8 + 1500 as a signed expression whose division truncates toward
\* zero (992 gives 1500, 172 gives 988); unsigned storage and the 16-bit return
\* type do not change the result.
C9_ReadRawRCIsSignedFormula ==
    rawRC.chan # NoIndex
        => rawRC.value = CDiv((rawRC.stored - 992) * 5, 8) + 1500

\* C10: the standard link-statistics handler forwards as RSSI r2 when r1 = 0, r1
\* when r2 = 0 and r1 # 0, and -min(r1, r2) when both are non-zero ((0,40) gives 40,
\* (30,0) gives 30, (20,50) gives -20).
C10_RssiIsNegatedMinimum ==
    rx.handler = "handleCrsfLinkStatisticsFrame"
        => LET r1 == payloadByte(crsfFrame, 0)
               r2 == payloadByte(crsfFrame, 1)
           IN  linkStats.rssi = IF r1 = 0 THEN r2
                                ELSE IF r2 = 0 THEN r1
                                ELSE - Min(r1, r2)

\* ------------------------------------------------------------------------
\* The telemetry output slot
\* ------------------------------------------------------------------------

\* data handed to crsfRxWriteTelemetryData: empty, short, 64 bytes, and longer
TelemetryData ==
    { <<>>, <<1>>, <<7, 8, 9>>, [k \in 1..64 |-> k], [k \in 1..65 |-> 100 + k],
      [k \in 1..70 |-> 255 - k] }

\* crsfRxWriteTelemetryData(data, Len(data))
WriteTelemetryData ==
    /\ \E data \in TelemetryData :
         LET len == telemetryLen(Len(data))
         IN  /\ telemetryBuf' = telemetryCopy(telemetryBuf, data, len)
             /\ telemetryBufLen' = ToU8(len)
             /\ telem' = [telem EXCEPT !.op = "write", !.unsent = TRUE, !.data = data,
                                       !.dropped = telem.unsent]
    /\ UNCHANGED <<crsfFrameDone, crsfFrame, crsfChannelDataFrame, crsfChannelData,
                   crsfFrameStartAtUs, crsfFramePosition, crsfFrameErrorCnt,
                   lastLinkStatisticsFrameUs, microsNow, rssiSource, linkStats, rx,
                   poll, rawRC, wire, sent, hist>>

\* crsfRxSendTelemetryData()
SendTelemetryData ==
    /\ telemetryBufLen' = IF telemetryBufLen > 0
                          THEN telemetryBufLenAfterSend(telemetryBufLen)
                          ELSE telemetryBufLen
    /\ telem' = [op |-> "send", unsent |-> FALSE, data |-> <<>>,
                 dropped |-> telem.dropped,
                 had |-> telem.unsent, last |-> telem.data,
                 out |-> telemetrySent(telemetryBuf, telemetryBufLen)]
    /\ UNCHANGED <<crsfFrameDone, crsfFrame, crsfChannelDataFrame, crsfChannelData,
                   crsfFrameStartAtUs, crsfFramePosition, crsfFrameErrorCnt,
                   lastLinkStatisticsFrameUs, microsNow, rssiSource, linkStats, rx,
                   poll, rawRC, wire, sent, hist, telemetryBuf>>

NextTelemetry == WriteTelemetryData \/ SendTelemetryData
SpecTelemetry == Init /\ [][NextTelemetry]_vars

\* C11: a send transmits exactly the data of the most recent write since the
\* previous send, truncated to at most 64 bytes; earlier unsent writes are never
\* transmitted; a send with no write since the previous send transmits nothing.
C11_SendTransmitsLatestWrite ==
    telem.op = "send"
        => telem.out = IF telem.had
                       THEN SubSeq(telem.last, 1, Min(Len(telem.last), CRSF_FRAME_SIZE_MAX))
                       ELSE <<>>

\* C11 witness: a send after two writes with no send between them, the second one
\* longer than 64 bytes: its first 64 bytes went out
C11_Witness ==
    /\ telem.op = "send"
    /\ telem.had /\ telem.dropped
    /\ Len(telem.last) > CRSF_FRAME_SIZE_MAX
    /\ Len(telem.out) = CRSF_FRAME_SIZE_MAX
    /\ telemetryBufLen = 0

\* ------------------------------------------------------------------------
\* The error counter and the dispatch of completed frames
\* ------------------------------------------------------------------------

\* C12: the error counter goes up by one (saturating at 100) exactly when a frame
\* fails, is reset to 0 by a CRC-valid frame and is left unchanged by a byte that
\* merely extends a frame not yet complete; so the baud-rate fallback is requested
\* only after 100 frames in a row have failed.
C12_CounterCountsFailedFramesOnly ==
    /\ rx.stored # NoIndex /\ ~rx.complete => crsfFrameErrorCnt = rx.cntBefore
    /\ rx.complete /\ rx.crcOk => crsfFrameErrorCnt = 0
    /\ rx.complete /\ ~rx.crcOk
         => rx.cntAtCheck = Min(rx.cntBefore + 1, CRSF_FRAME_ERROR_COUNT_THRESHOLD)
    /\ rx.speedReq = 1 => sent.frames >= CRSF_FRAME_ERROR_COUNT_THRESHOLD

\* frames whose length byte gives a total size of 2 and of 3
LenZero == <<CRSF_ADDRESS_FLIGHT_CONTROLLER, 0, CRSF_FRAMETYPE_RC_CHANNELS_PACKED, 1, 2>>
LenOne == <<CRSF_ADDRESS_FLIGHT_CONTROLLER, 1, CRSF_FRAMETYPE_RC_CHANNELS_PACKED, 9>>

FramingFrames == {LenZero, LenOne, MinFrame, SubsetA}

FramingReceive == Receive(FramingFrames, IdleTimes, ByteTimes, MaxFrames)
FramingPoll == FrameStatus

NextFraming == FramingReceive \/ FramingPoll
SpecFraming == Init /\ [][NextFraming]_vars

\* the last call of crsfDataReceive found the position at or beyond the total
\* frame size and stored nothing
ByteBeyondFrame == sent.frames > 0 /\ rx.stored = NoIndex

\* C13: a byte that arrives with the position at or beyond the total frame size
\* computed from the length byte (length byte 0 or 1) discards the frame, resets
\* the position to 0 and is counted toward the error threshold.
C13_FramingErrorResetsAndCounts ==
    ByteBeyondFrame
        => /\ crsfFramePosition = 0
           /\ \/ rx.cntAtCheck = Min(rx.cntBefore + 1, CRSF_FRAME_ERROR_COUNT_THRESHOLD)
              \/ rx.speedReq = 1

\* a command frame: destination, origin, command bytes, command CRC, frame CRC
CommandFrame(dest, body, cmdCrcGood) ==
    LET head == <<dest, 234>> \o body
        cmdCrc == cmdCrcOfSeq(0, <<CRSF_FRAMETYPE_COMMAND>> \o head)
    IN  MkFrame(CRSF_ADDRESS_FLIGHT_CONTROLLER, CRSF_FRAMETYPE_COMMAND,
                head \o <<IF cmdCrcGood THEN cmdCrc ELSE (cmdCrc + 1) % 256>>)

CmdGood == CommandFrame(CRSF_ADDRESS_FLIGHT_CONTROLLER, <<16, 112, 1>>, TRUE)
CmdBadCrc == CommandFrame(CRSF_ADDRESS_FLIGHT_CONTROLLER, <<16, 112, 1>>, FALSE)
CmdOther == CommandFrame(236, <<16, 112, 1>>, TRUE)
\* the shortest command frame whose byte 3 exists: it is the destination and the
\* command CRC at once
CmdShort ==
    MkFrame(CRSF_ADDRESS_FLIGHT_CONTROLLER, CRSF_FRAMETYPE_COMMAND,
            <<CRSF_ADDRESS_FLIGHT_CONTROLLER>>)
\* RC frames of both formats addressed to another device, and an RC frame with a
\* wrong CRC
RcOther == RcFrame(238, ValuesB)
SubsetOther == SubsetFrame(234, 4, <<100, 2000>>)
BadCrcRc == Corrupt(RcB)

DispatchFrames ==
    {RcA, BadCrcRc, RcOther, SubsetOther, MinFrame,
     CmdGood, CmdBadCrc, CmdOther, CmdShort}

DispatchReceive == Receive(DispatchFrames, ByteTimes, ByteTimes, MaxFrames)
DispatchPoll == FrameStatus

NextDispatch == DispatchReceive \/ DispatchPoll
SpecDispatch == Init /\ [][NextDispatch]_vars

\* the frame in the buffer f, as the sequence of its type and payload bytes
TypeAndPayload(f) == [k \in 1..(frameLength(f) - 1) |-> f[k + 1]]

\* the frame in the buffer fits it, and its last byte is, or is not, its CRC
BufferHoldsFrame(f) ==
    frameLength(f) >= 2 /\ frameLength(f) + 2 <= CRSF_FRAME_SIZE_MAX
CrcGoodIn(f) ==
    BufferHoldsFrame(f) /\ f[frameLength(f) + 1] = crcOfSeq(0, TypeAndPayload(f))
CrcBadIn(f) ==
    BufferHoldsFrame(f) /\ f[frameLength(f) + 1] # crcOfSeq(0, TypeAndPayload(f))

\* a step of crsfDataReceive, which reads micros()
ReceiveStep == microsNow' # microsNow

\* C14: a call of crsfDataReceive that completes a frame whose last byte differs
\* from the CRC of its type and payload leaves the latch, the snapshot and
\* crsfChannelData as they were, invokes no handler and returns the position to 0.
C14_BadCrcFrameDiscarded ==
    [][(ReceiveStep /\ rx'.complete /\ CrcBadIn(crsfFrame'))
       => /\ crsfFrameDone' = crsfFrameDone
          /\ crsfChannelDataFrame' = crsfChannelDataFrame
          /\ crsfChannelData' = crsfChannelData
          /\ rx'.handler = "none"
          /\ crsfFramePosition' = 0]_vars

\* the RC frame with the wrong CRC has just completed while the latch and the
\* snapshot of an earlier accepted frame are still in place
C14_Witness ==
    /\ rx.complete /\ ~rx.crcOk
    /\ \A i \in 0..(Len(BadCrcRc) - 1) : crsfFrame[i] = BadCrcRc[i + 1]
    /\ crsfFrameDone /\ SnapshotIs(RcA)
    /\ crsfFramePosition = 0

\* the byte before the frame CRC is the command CRC of the type and the payload
\* before it
CmdCrcGoodIn(f) ==
    /\ frameLength(f) >= 3
    /\ f[frameLength(f)]
         = cmdCrcOfSeq(0, [k \in 1..(frameLength(f) - 2) |-> f[k + 1]])

\* the frame just completed is a command frame with a valid frame CRC
CommandCompleted ==
    /\ rx.complete /\ CrcGoodIn(crsfFrame)
    /\ frameType(crsfFrame) = CRSF_FRAMETYPE_COMMAND

\* C15: a CRC-valid command frame is forwarded to crsfProcessCommand exactly when
\* its command CRC matches and bytes[3] is the flight controller address;
\* otherwise no handler runs and the error counter is not incremented (it is 0).
C15_CommandForwardedIffCrcAndAddress ==
    CommandCompleted
    => /\ rx.handler = "crsfProcessCommand"
            <=> (CmdCrcGoodIn(crsfFrame)
                 /\ crsfFrame[3] = CRSF_ADDRESS_FLIGHT_CONTROLLER)
       /\ rx.handler \in {"crsfProcessCommand", "none"}
       /\ crsfFrameErrorCnt = 0
       /\ rx.speedReq = 0

\* a command frame for the flight controller with a wrong command CRC has been
\* dropped
C15_Witness ==
    /\ CommandCompleted
    /\ crsfFrame[3] = CRSF_ADDRESS_FLIGHT_CONTROLLER
    /\ ~CmdCrcGoodIn(crsfFrame)
    /\ rx.handler = "none"
    /\ crsfFrameErrorCnt = 0

\* the frame types that have a case in the switch of crsfDataReceive
HandledTypes ==
    {CRSF_FRAMETYPE_RC_CHANNELS_PACKED, CRSF_FRAMETYPE_SUBSET_RC_CHANNELS_PACKED,
     CRSF_FRAMETYPE_MSP_REQ, CRSF_FRAMETYPE_MSP_WRITE, CRSF_FRAMETYPE_DEVICE_PING,
     CRSF_FRAMETYPE_DISPLAYPORT_CMD, CRSF_FRAMETYPE_LINK_STATISTICS,
     CRSF_FRAMETYPE_LINK_STATISTICS_RX, CRSF_FRAMETYPE_LINK_STATISTICS_TX,
     CRSF_FRAMETYPE_COMMAND}

\* an RC frame of either format for another device, or a frame of a type without
\* a case
NotForUs(f) ==
    \/ /\ frameType(f) \in {CRSF_FRAMETYPE_RC_CHANNELS_PACKED,
                            CRSF_FRAMETYPE_SUBSET_RC_CHANNELS_PACKED}
       /\ deviceAddress(f) # CRSF_ADDRESS_FLIGHT_CONTROLLER
    \/ frameType(f) \notin HandledTypes

\* C16: a call of crsfDataReceive that completes a CRC-valid RC frame for another
\* device, or a CRC-valid frame of an unhandled type, leaves the latch, the
\* snapshot and crsfChannelData as they were, invokes no handler, leaves the
\* error counter at 0 and requests no fallback.
C16_ForeignAndUnknownFramesIgnored ==
    [][(ReceiveStep /\ rx'.complete /\ CrcGoodIn(crsfFrame') /\ NotForUs(crsfFrame'))
       => /\ crsfFrameDone' = crsfFrameDone
          /\ crsfChannelDataFrame' = crsfChannelDataFrame
          /\ crsfChannelData' = crsfChannelData
          /\ rx'.handler = "none"
          /\ crsfFrameErrorCnt' = 0
          /\ rx'.speedReq = 0]_vars

\* a CRC-valid RC frame for another device has just completed and the latch is
\* not set
C16_Witness ==
    /\ rx.complete /\ rx.crcOk
    /\ \A i \in 0..(Len(RcOther) - 1) : crsfFrame[i] = RcOther[i + 1]
    /\ ~crsfFrameDone
    /\ ~SnapshotIs(RcOther)
    /\ crsfFrameErrorCnt = 0

\* C17: there is no frame queue. The snapshot is the accepted frame whatever was
\* in it (two RC frames A then B with no poll in between leave B only); after the
\* last accepted frame crsfFrameStatus returns RX_FRAME_COMPLETE at most once,
\* that poll decodes the latest frame, every later poll returns RX_FRAME_PENDING,
\* and no channel ever holds a value decoded from an overwritten frame.
C17_LatestFrameWins ==
    /\ rx.handler = "rc" => crsfChannelDataFrame = crsfFrame
    /\ hist.returns <= 1
    /\ ~hist.fresh /\ hist.snapSeq > 0 => hist.returns = 1
    /\ DecodedSnapshot => \E i \in ChannelIndex : poll.src[i] = hist.snapSeq
    /\ \A i \in ChannelIndex : poll.src[i] \notin hist.lost

\* RcA then RcB were accepted with no poll in between, then one poll returned
\* RX_FRAME_COMPLETE and decoded RcB, and the poll after it RX_FRAME_PENDING
C17_Witness ==
    /\ hist.snapSeq = 2 /\ hist.lost = {1}
    /\ SnapshotIs(RcB)
    /\ hist.returns = 1 /\ poll.ret = RX_FRAME_PENDING
    /\ \A i \in ChannelIndex : crsfChannelData[i] = ValuesB[i + 1]

\* ------------------------------------------------------------------------
\* The largest frame at the line rate
\* ------------------------------------------------------------------------

\* a well-formed frame of CRSF_FRAME_SIZE_MAX bytes
LargestFrame ==
    MkFrame(CRSF_ADDRESS_FLIGHT_CONTROLLER, CRSF_FRAMETYPE_MSP_WRITE,
            [k \in 1..(CRSF_FRAME_SIZE_MAX - 4) |-> k])

\* 420000 bit/s = 21.43 us per byte: micros() advances by 21 or 22 between two
\* bytes that arrive back to back
LineByteTimes == {21, 22}

\* one frame is enough: every byte time multiplies the clock values reached
LineFrames == 1

LineRateReceive == Receive({LargestFrame}, IdleTimes, LineByteTimes, LineFrames)
LineRatePoll == FrameStatus

NextLineRate == LineRateReceive \/ LineRatePoll
SpecLineRate == Init /\ [][NextLineRate]_vars

\* C18: a well-formed 64-byte frame whose bytes arrive back to back at the line
\* rate is assembled without any byte after its first triggering the timeout
\* reset, and the call for its last byte, and no other, dispatches it.
C18_LargestFrameFitsWindow ==
    sent.frames > 0 /\ sent.wf
    => /\ Len(wire) < Len(LargestFrame) - 1 => ~rx.timedOut
       /\ wire # <<>> => ~rx.complete
       /\ wire = <<>> => /\ rx.complete /\ rx.crcOk
                         /\ rx.handler \in {"bufferCrsfMspFrame",
                                            "crsfScheduleMspResponse"}

\* ------------------------------------------------------------------------
\* No frame lost between the receive interrupt and the poll
\* ------------------------------------------------------------------------

IsrTests == { [values |-> ValuesA, frame |-> RcA], [values |-> ValuesB, frame |-> RcB] }

\* the last call of crsfDataReceive completed the frame, which is still in crsfFrame
LastCompleted(frame) ==
    /\ wire = <<>> /\ rx.handler = "rc"
    /\ \A k \in 1..Len(frame) : crsfFrame[k - 1] = frame[k]

\* a poll called after the last accepted frame has returned RX_FRAME_PENDING
PolledToPending ==
    /\ poll.pc = "idle" /\ poll.ret = RX_FRAME_PENDING
    /\ ~hist.fresh /\ hist.snapSeq > 0

\* C19: whatever the interleaving of the receive interrupt with the statements of
\* the poll, once the polls after the last completed fixed-format RC frame have
\* come to return RX_FRAME_PENDING, a poll has returned RX_FRAME_COMPLETE after
\* that frame completed and crsfChannelData is the decode of that frame.
C19_LastFrameNeverLost ==
    \A t \in IsrTests :
        PolledToPending /\ LastCompleted(t.frame)
          => /\ hist.returns >= 1
             /\ \A i \in ChannelIndex : crsfChannelData[i] = t.values[i + 1]

\* RcB completed while a poll decoding RcA was under way: that poll and the next
\* both returned RX_FRAME_COMPLETE, the one after RX_FRAME_PENDING
C19_Witness ==
    /\ PolledToPending /\ LastCompleted(RcB)
    /\ hist.snapSeq = 2 /\ hist.lost = {}
    /\ hist.returns = 2
    /\ \A i \in ChannelIndex : crsfChannelData[i] = ValuesB[i + 1]

\* ------------------------------------------------------------------------
\* Subset frames over the whole range of the start channel field
\* ------------------------------------------------------------------------

\* CRC-valid subset frames: channels 4 and 5, channels 15 and 16, channel 31
SubsetEdge == SubsetFrame(CRSF_ADDRESS_FLIGHT_CONTROLLER, 15, <<1, 2>>)
SubsetHigh == SubsetFrame(CRSF_ADDRESS_FLIGHT_CONTROLLER, 31, <<7>>)
RangeFrames == {SubsetA, SubsetEdge, SubsetHigh}

RangeReceive == Receive(RangeFrames, ByteTimes, ByteTimes, MaxFrames)
RangePoll == FrameStatus

NextRange == RangeReceive \/ RangePoll
SpecRange == Init /\ [][NextRange]_vars

\* C20: every index startChannel + n that the poll of a CRC-valid subset frame
\* writes lies in 0..15.
C20_SubsetWritesInsideChannelData ==
    poll.outside = NoIndex

\* ------------------------------------------------------------------------
\* The timeout test across the wrap of the microsecond counter
\* ------------------------------------------------------------------------

\* the last call was not the first ever: crsfFrameStartAtUs held the arrival time
\* of a byte when it ran
StampedBefore == sent.frames > 1 \/ (sent.frames = 1 /\ sent.span > 0)

\* C21: a byte that arrives less than 1100 us after the frame-start timestamp does
\* not reset the position, and a byte that arrives more than 1100 us after it
\* does, also when micros() or crsfFrameStartAtUs + 1100 wraps modulo 2^32 in
\* between.
C21_TimeoutCorrectAcrossWrap ==
    StampedBefore
        => /\ sent.arrivalAge < CRSF_TIME_NEEDED_PER_FRAME_US => ~rx.timedOut
           /\ sent.arrivalAge > CRSF_TIME_NEEDED_PER_FRAME_US => rx.timedOut

====
